---- MODULE Spec2Model ----
(***************************************************************************)
(* Model of src/middleware/express.app.config.ts: the ExpressAppConfig     *)
(* class that assembles an express middleware chain around an OpenAPI      *)
(* definition file.                                                        *)
(*                                                                         *)
(* JavaScript values are modelled as tagged records.  A string that is     *)
(* parsed by the code (the errorLimit option) is a sequence of one         *)
(* character strings; a number is kept in tenths (4005 is 400.5) so that   *)
(* fractional thresholds exist in the model.                               *)
(***************************************************************************)
EXTENDS Integers, Sequences, FiniteSets, TLC

\* ------------------------------------------------------------------ bounds
MaxCustom == 2
MaxPre == 1

\* ------------------------------------------------------- JavaScript values
Undef == [t |-> "undefined", num |-> 0, str |-> <<>>]
Null == [t |-> "null", num |-> 0, str |-> <<>>]
Num(n10) == [t |-> "number", num |-> n10, str |-> <<>>]
Str(s) == [t |-> "string", num |-> 0, str |-> s]
Bool(b) == [t |-> "boolean", num |-> (IF b THEN 1 ELSE 0), str |-> <<>>]

\* x != undefined (loose inequality: null equals undefined)
NotLooseUndefined(v) == v.t \notin {"undefined", "null"}

\* ToBoolean of a value, as used by the || operator
Truthy(v) ==
    CASE v.t = "undefined" -> FALSE
      [] v.t = "null" -> FALSE
      [] v.t = "boolean" -> v.num = 1
      [] v.t = "number" -> v.num # 0
      [] v.t = "string" -> v.str # <<>>
      [] OTHER -> TRUE

\* ------------------------------------------------------- parseInt (global)
DecDigits == <<"0", "1", "2", "3", "4", "5", "6", "7", "8", "9">>
HexLower == <<"0", "1", "2", "3", "4", "5", "6", "7", "8", "9", "a", "b", "c", "d", "e", "f">>
HexUpper == <<"0", "1", "2", "3", "4", "5", "6", "7", "8", "9", "A", "B", "C", "D", "E", "F">>

Range(s) == {s[i] : i \in 1..Len(s)}
IndexOf(c, s) == CHOOSE i \in 1..Len(s) : s[i] = c

IsDigit(c, radix) ==
    IF radix = 10 THEN c \in Range(DecDigits)
    ELSE c \in Range(HexLower) \cup Range(HexUpper)

DigitValue(c) ==
    IF c \in Range(HexLower) THEN IndexOf(c, HexLower) - 1
    ELSE IndexOf(c, HexUpper) - 1

RECURSIVE DigitsOf(_)
DigitsOf(n) ==
    IF n < 10 THEN <<DecDigits[n + 1]>>
    ELSE DigitsOf(n \div 10) \o <<DecDigits[(n % 10) + 1]>>

\* Number::toString for a finite number of moderate size, kept in tenths
NumberToString(n10) ==
    LET a == IF n10 < 0 THEN 0 - n10 ELSE n10
    IN  (IF n10 < 0 THEN <<"-">> ELSE <<>>)
        \o DigitsOf(a \div 10)
        \o (IF a % 10 = 0 THEN <<>> ELSE <<".", DecDigits[(a % 10) + 1]>>)

JSToString(v) ==
    CASE v.t = "string" -> v.str
      [] v.t = "number" -> NumberToString(v.num)
      [] v.t = "boolean" -> IF v.num = 1 THEN <<"t", "r", "u", "e">> ELSE <<"f", "a", "l", "s", "e">>
      [] v.t = "null" -> <<"n", "u", "l", "l">>
      [] OTHER -> <<"u", "n", "d", "e", "f", "i", "n", "e", "d">>

RECURSIVE TrimLeft(_)
TrimLeft(s) ==
    IF s # <<>> /\ Head(s) = " " THEN TrimLeft(Tail(s)) ELSE s

\* the longest prefix of s made of radix digits
RECURSIVE DigitPrefix(_, _)
DigitPrefix(s, radix) ==
    IF s # <<>> /\ IsDigit(Head(s), radix)
    THEN <<Head(s)>> \o DigitPrefix(Tail(s), radix)
    ELSE <<>>

RECURSIVE DigitsValue(_, _)
DigitsValue(z, radix) ==
    IF z = <<>> THEN 0
    ELSE DigitsValue(SubSeq(z, 1, Len(z) - 1), radix) * radix + DigitValue(z[Len(z)])

NaN == [nan |-> TRUE, val |-> 0]

\* parseInt(v) with no radix argument; the result is an integer or NaN
parseInt(v) ==
    LET inputString == JSToString(v)
        S == TrimLeft(inputString)
        neg == S # <<>> /\ Head(S) = "-"
        S1 == IF S # <<>> /\ Head(S) \in {"+", "-"} THEN Tail(S) ELSE S
        hex == Len(S1) >= 2 /\ S1[1] = "0" /\ S1[2] \in {"x", "X"}
        R == IF hex THEN 16 ELSE 10
        S2 == IF hex THEN SubSeq(S1, 3, Len(S1)) ELSE S1
        Z == DigitPrefix(S2, R)
    IN  IF Z = <<>> THEN NaN
        ELSE [nan |-> FALSE, val |-> (IF neg THEN 0 - DigitsValue(Z, R) ELSE DigitsValue(Z, R))]

\* a < b on numbers where b may be NaN (any comparison with NaN is false)
LessThan(a, b) == ~b.nan /\ a < b.val

\* ------------------------------------------------- opaque option values
U == [t |-> "undefined", s |-> ""]
S(x) == [t |-> "string", s |-> x]
Fn(x) == [t |-> "function", s |-> x]
TruthyS(v) == v.t # "undefined" /\ ~(v.t = "string" /\ v.s = "")

\* ------------------------------------------------------ configureLogger
NoSkip == [defined |-> FALSE, errorLimit |-> Undef]

\* mutant: the default format is 'combined'
configureLoggerCombined(loggerOptions) ==
    LET format ==
            IF /\ loggerOptions.kind \notin {"undefined", "null"}
               /\ loggerOptions.format.t = "string"
            THEN loggerOptions.format.s
            ELSE "combined"
        options ==
            IF /\ loggerOptions.kind \notin {"undefined", "null"}
               /\ NotLooseUndefined(loggerOptions.errorLimit)
               /\ loggerOptions.errorLimit.t \in {"string", "number"}
            THEN [defined |-> TRUE, errorLimit |-> loggerOptions.errorLimit]
            ELSE [defined |-> FALSE, errorLimit |-> Undef]
    IN  [format |-> format, skip |-> options]

configureLogger(loggerOptions) ==
    LET format ==
            IF /\ loggerOptions.kind \notin {"undefined", "null"}
               /\ loggerOptions.format.t # "undefined"
               /\ loggerOptions.format.t = "string"
            THEN loggerOptions.format.s
            ELSE "dev"
        options ==
            IF /\ loggerOptions.kind \notin {"undefined", "null"}
               /\ NotLooseUndefined(loggerOptions.errorLimit)
               /\ loggerOptions.errorLimit.t \in {"string", "number"}
            THEN [defined |-> TRUE, errorLimit |-> loggerOptions.errorLimit]
            ELSE NoSkip
    IN  [format |-> format, skip |-> options]

\* the function stored in options['skip']
skip(errorLimit, statusCode) == LessThan(statusCode, parseInt(errorLimit))

\* morgan writes no line for a response its skip option returns true for
Skipped(logger, statusCode) ==
    logger.skip.defined /\ skip(logger.skip.errorLimit, statusCode)

\* --------------------------------------------------------- errorHandler
DefaultStatus == 500

\* mutant: the handler also passes the failure on with next(error)
errorHandlerCallsNext(error) ==
    [statusCode |-> IF Truthy(error.status) THEN error.status ELSE Num(DefaultStatus * 10),
     statusCalls |-> 1,
     jsonCalls |-> 1,
     nextCalls |-> 1,
     body |-> [message |-> error.message, errors |-> error.errors]]

errorHandler(error) ==
    [statusCode |-> IF Truthy(error.status) THEN error.status ELSE Num(DefaultStatus * 10),
     statusCalls |-> 1,
     jsonCalls |-> 1,
     nextCalls |-> 0,
     body |-> [message |-> error.message, errors |-> error.errors]]

\* ------------------------------------------- setOpenApiValidatorOptions
\* mutant: the caller's apiSpec is kept instead of being overridden
setOpenApiValidatorOptionsNoOverride(definitionPath, appOptions, h) ==
    IF appOptions.openApiValidator = "undefined"
    THEN [ref |-> "ownOpts", heap |-> h @@ ("ownOpts" :> [apiSpec |-> definitionPath])]
    ELSE [ref |-> appOptions.openApiValidator, heap |-> h]

setOpenApiValidatorOptions(definitionPath, appOptions, h) ==
    IF appOptions.openApiValidator = "undefined"
    THEN [ref |-> "ownOpts", heap |-> h @@ ("ownOpts" :> [apiSpec |-> definitionPath])]
    ELSE [ref |-> appOptions.openApiValidator,
          heap |-> [h EXCEPT ![appOptions.openApiValidator] =
                        [@ EXCEPT !.apiSpec = definitionPath]]]

\* --------------------------------------------------------------- getApp
\* mutant: the accessor hands out the application express() creates
getAppFresh(this) == "expressApp"

getApp(this) == this.app

\* ------------------------------------------------------------ the world
\* the files on disk: a path that is not listed does not exist
Files == [p \in {"api.yaml", "broken.yaml"} |-> IF p = "api.yaml" THEN "valid" ELSE "malformed"]
Paths == {"api.yaml", "broken.yaml", "missing.yaml"}

Stage(n) == [name |-> n, id |-> 0]
Pre(i) == [name |-> "pre", id |-> i]

Ev(e, n, i) == [ev |-> e, name |-> n, id |-> i]
Use(n) == Ev("use", n, 0)

\* (customMiddlewares || []).forEach(middleware => this.app.use(middleware))
customUses(customMiddlewares) ==
    IF customMiddlewares.given
    THEN [i \in 1..Len(customMiddlewares.list) |-> Ev("use", "custom", customMiddlewares.list[i])]
    ELSE <<>>

\* mutant: the custom middlewares are registered after the router
constructorStepsCustomLast(args) ==
    <<Ev("setOpenApiValidatorOptions", "", 0)>>
    \o (IF args.appOptions.app = "undefined" THEN <<Ev("express()", "", 0)>> ELSE <<>>)
    \o <<Use("cors"),
         Ev("fs.readFileSync", args.definitionPath, 0),
         Ev("jsyaml.load", args.definitionPath, 0),
         Use("bodyParser.urlencoded"),
         Use("bodyParser.text"),
         Use("bodyParser.json"),
         Use("bodyParser.raw"),
         Use("logger"),
         Use("express.json"),
         Use("express.urlencoded"),
         Use("cookieParser"),
         Ev("new SwaggerUI", "", 0),
         Use("swaggerUi.serveStaticContent"),
         Use("OpenApiValidator.middleware"),
         Use("SwaggerParameters.checkParameters"),
         Use("SwaggerRouter.initialize")>>
    \o customUses(args.customMiddlewares)
    \o <<Use("errorHandler")>>

\* mutant: the request logger is registered ahead of the body parsers
constructorStepsLoggerFirst(args) ==
    <<Ev("setOpenApiValidatorOptions", "", 0)>>
    \o (IF args.appOptions.app = "undefined" THEN <<Ev("express()", "", 0)>> ELSE <<>>)
    \o <<Use("cors"),
         Ev("fs.readFileSync", args.definitionPath, 0),
         Ev("jsyaml.load", args.definitionPath, 0),
         Use("logger"),
         Use("bodyParser.urlencoded"),
         Use("bodyParser.text"),
         Use("bodyParser.json"),
         Use("bodyParser.raw"),
         Use("express.json"),
         Use("express.urlencoded"),
         Use("cookieParser"),
         Ev("new SwaggerUI", "", 0),
         Use("swaggerUi.serveStaticContent"),
         Use("OpenApiValidator.middleware"),
         Use("SwaggerParameters.checkParameters")>>
    \o customUses(args.customMiddlewares)
    \o <<Use("SwaggerRouter.initialize"),
         Use("errorHandler")>>

\* the statements of the constructor that act on the outside, in order
constructorSteps(args) ==
    <<Ev("setOpenApiValidatorOptions", "", 0)>>
    \o (IF args.appOptions.app = "undefined" THEN <<Ev("express()", "", 0)>> ELSE <<>>)
    \o <<Use("cors"),
         Ev("fs.readFileSync", args.definitionPath, 0),
         Ev("jsyaml.load", args.definitionPath, 0),
         Use("bodyParser.urlencoded"),
         Use("bodyParser.text"),
         Use("bodyParser.json"),
         Use("bodyParser.raw"),
         Use("logger"),
         Use("express.json"),
         Use("express.urlencoded"),
         Use("cookieParser"),
         Ev("new SwaggerUI", "", 0),
         Use("swaggerUi.serveStaticContent"),
         Use("OpenApiValidator.middleware"),
         Use("SwaggerParameters.checkParameters")>>
    \o customUses(args.customMiddlewares)
    \o <<Use("SwaggerRouter.initialize"),
         Use("errorHandler")>>

\* the exception a statement raises, "none" when it completes
Throws(step) ==
    IF step.ev = "fs.readFileSync" /\ step.name \notin DOMAIN Files THEN "ENOENT"
    ELSE IF step.ev = "jsyaml.load" /\ Files[step.name] = "malformed" THEN "YAMLException"
    ELSE "none"

\* the statements that run: everything up to and including the first that throws
RECURSIVE Executed(_)
Executed(steps) ==
    IF steps = <<>> THEN <<>>
    ELSE IF Throws(Head(steps)) # "none" THEN <<Head(steps)>>
    ELSE <<Head(steps)>> \o Executed(Tail(steps))

Thrown(steps) == IF steps = <<>> THEN "none" ELSE Throws(steps[Len(steps)])

\* the stages app.use appended, in call order
RECURSIVE Registered(_)
Registered(steps) ==
    IF steps = <<>> THEN <<>>
    ELSE IF Head(steps).ev = "use"
         THEN <<[name |-> Head(steps).name, id |-> Head(steps).id]>> \o Registered(Tail(steps))
         ELSE Registered(Tail(steps))

\* ---------------------------------------------------------------- inputs
RECURSIVE InjSeqs(_, _)
InjSeqs(ids, n) ==
    IF n = 0 THEN {<<>>}
    ELSE {<<>>} \cup UNION {{<<i>> \o r : r \in {q \in InjSeqs(ids, n - 1) : i \notin Range(q)}} : i \in ids}

CustomLists ==
    {[given |-> FALSE, list |-> <<>>]}
    \cup {[given |-> TRUE, list |-> l] : l \in InjSeqs(1..MaxCustom, MaxCustom)}

PreChains == {[i \in 1..n |-> Pre(i)] : n \in 0..MaxPre}

ErrorLimits ==
    {Undef, Null, Bool(TRUE),
     Num(4000), Num(4005), Num(0),
     Str(<<"4", "0", "0">>),
     Str(<<"4", "e", "2">>),
     Str(<<"0", "x", "1", "9", "0">>),
     Str(<<" ", "4", "0", "0">>),
     Str(<<"4", "0", "0", ".", "5">>),
     Str(<<"-", "1">>),
     Str(<<"a", "b", "c">>),
     Str(<<>>)}

Formats == {U, S("combined"), Fn("custom")}

LoggingOptions ==
    {[kind |-> k, format |-> U, errorLimit |-> Undef] : k \in {"undefined", "null"}}
    \cup {[kind |-> "object", format |-> f, errorLimit |-> e] : f \in Formats, e \in ErrorLimits}

\* the logging options the assembly specification draws from
FewLoggingOptions ==
    {[kind |-> "undefined", format |-> U, errorLimit |-> Undef],
     [kind |-> "object", format |-> S("combined"), errorLimit |-> Num(4000)]}

Args ==
    [definitionPath : Paths,
     appOptions : [app : {"undefined", "callerApp"},
                   routing : {"routingOptions"},
                   parserLimit : {U, S("1mb")},
                   openApiValidator : {"undefined", "callerOpts"},
                   logging : FewLoggingOptions],
     customMiddlewares : CustomLists,
     jsonExpressType : {U, S("application/vnd.api+json")}]

\* the constructor calls the logging specification draws from
LoggerArgs ==
    [definitionPath : {"api.yaml"},
     appOptions : [app : {"undefined", "callerApp"},
                   routing : {"routingOptions"},
                   parserLimit : {U},
                   openApiValidator : {"undefined"},
                   logging : LoggingOptions],
     customMiddlewares : {[given |-> FALSE, list |-> <<>>]},
     jsonExpressType : {U}]

StatusCodes == {200, 304, 399, 400, 401, 404, 500}

Errors ==
    [status : {Undef, Num(0), Num(4000), Num(4040), Num(5030)},
     message : {"undefined", "Bad Request"},
     errors : {"undefined", "validation errors"}]

\* ----------------------------------------------------------------- state
VARIABLES
    pc,      \* "new", "constructed" or "threw"
    this,    \* the private fields of the ExpressAppConfig
    apps,    \* application handle -> its middleware chain
    heap,    \* validator option objects, by identity
    mw,      \* the arguments the middleware factories were called with
    trace,   \* the statements the constructor ran
    call,    \* the constructor call: its arguments and what it was given
    ret      \* the last operation and what it returned

vars == <<pc, this, apps, heap, mw, trace, call, ret>>

NoLogger == [format |-> "", skip |-> NoSkip]
NoMw == [limit |-> "", jsonType |-> "", logger |-> NoLogger, validator |-> "undefined", routing |-> "undefined"]
NoThis == [definitionPath |-> "undefined", routingOptions |-> "undefined", parserLimit |-> "undefined",
           openApiValidatorOptions |-> "undefined", app |-> "undefined"]

Init ==
    /\ pc = "new"
    /\ this = NoThis
    /\ \E c \in PreChains : apps = [a \in {"callerApp"} |-> c]
    /\ \E a \in {"undefined", "other.yaml"} :
          heap = [o \in {"callerOpts"} |-> [apiSpec |-> a, validateResponses |-> TRUE]]
    /\ mw = NoMw
    /\ trace = <<>>
    /\ call = [op |-> "none"]
    /\ ret = [op |-> "none"]

\* new ExpressAppConfig(definitionPath, appOptions, customMiddlewares, jsonExpressType)
Construct(args) ==
    LET jsonExpressType == IF args.jsonExpressType.t = "undefined"
                           THEN "application/json" ELSE args.jsonExpressType.s
        parserLimit == IF TruthyS(args.appOptions.parserLimit)
                       THEN args.appOptions.parserLimit.s ELSE "100kb"
        o == setOpenApiValidatorOptions(args.definitionPath, args.appOptions, heap)
        app == IF args.appOptions.app # "undefined" THEN args.appOptions.app ELSE "expressApp"
        before == IF app \in DOMAIN apps THEN apps[app] ELSE <<>>
        steps == Executed(constructorSteps(args))
        thrown == Thrown(steps)
    IN  /\ pc = "new"
        /\ this' = [definitionPath |-> args.definitionPath,
                    routingOptions |-> args.appOptions.routing,
                    parserLimit |-> parserLimit,
                    openApiValidatorOptions |-> o.ref,
                    app |-> app]
        /\ heap' = o.heap
        /\ apps' = (app :> (before \o Registered(steps))) @@ apps
        /\ trace' = steps
        /\ mw' = IF thrown # "none" THEN mw
                 ELSE [limit |-> parserLimit,
                       jsonType |-> jsonExpressType,
                       logger |-> configureLogger(args.appOptions.logging),
                       validator |-> o.ref,
                       routing |-> args.appOptions.routing]
        /\ pc' = IF thrown # "none" THEN "threw" ELSE "constructed"
        /\ call' = [op |-> "new", args |-> args, chainBefore |-> before,
                    heapBefore |-> heap, thrown |-> thrown]
        /\ ret' = ret

Constructor == \E args \in Args : Construct(args)

\* getApp()
GetApp ==
    /\ pc = "constructed"
    /\ ret' = [op |-> "getApp", value |-> getApp(this)]
    /\ UNCHANGED <<pc, this, apps, heap, mw, trace, call>>

\* mutant: configureLogger also registers the logger it builds
CallConfigureLoggerRegisters(loggerOptions) ==
    /\ pc = "constructed"
    /\ ret' = [op |-> "configureLogger", loggerOptions |-> loggerOptions,
               logger |-> configureLogger(loggerOptions)]
    /\ apps' = [apps EXCEPT ![this.app] = Append(@, Stage("logger"))]
    /\ UNCHANGED <<pc, this, heap, mw, trace, call>>

\* configureLogger(loggerOptions), a public method
CallConfigureLogger(loggerOptions) ==
    /\ pc = "constructed"
    /\ ret' = [op |-> "configureLogger", loggerOptions |-> loggerOptions,
               logger |-> configureLogger(loggerOptions)]
    /\ UNCHANGED <<pc, this, apps, heap, mw, trace, call>>

ConfigureLogger == \E loggerOptions \in FewLoggingOptions : CallConfigureLogger(loggerOptions)

\* a response with the given status code reaches the registered logger
LogRequest ==
    \E statusCode \in StatusCodes :
        /\ pc = "constructed"
        /\ ret' = [op |-> "log", statusCode |-> statusCode,
                   skipped |-> Skipped(mw.logger, statusCode)]
        /\ UNCHANGED <<pc, this, apps, heap, mw, trace, call>>

\* an upstream stage passes a failure to the terminal error handler
ErrorHandler ==
    \E error \in Errors :
        /\ pc = "constructed"
        /\ ret' = [op |-> "errorHandler", error |-> error, response |-> errorHandler(error)]
        /\ UNCHANGED <<pc, this, apps, heap, mw, trace, call>>

Next ==
    \/ Constructor
    \/ GetApp
    \/ ConfigureLogger
    \/ LogRequest
    \/ ErrorHandler

Spec == Init /\ [][Next]_vars

\* the logging specification: every logging option, one schema file
LoggerConstructor == \E args \in LoggerArgs : Construct(args)

LoggerConfigureLogger == \E loggerOptions \in LoggingOptions : CallConfigureLogger(loggerOptions)

LoggerNext ==
    \/ LoggerConstructor
    \/ LoggerConfigureLogger
    \/ LogRequest

LoggerSpec == Init /\ [][LoggerNext]_vars

\* =================================================================
\* Properties
\* =================================================================
Chain == apps[this.app]
Appended == SubSeq(Chain, Len(call.chainBefore) + 1, Len(Chain))
Positions(seq, names) == {i \in 1..Len(seq) : seq[i].name \in names}
IsCustom(st) == st.name = "custom"
GivenCustoms == IF call.args.customMiddlewares.given THEN call.args.customMiddlewares.list ELSE <<>>
CustomIds == LET c == SelectSeq(Chain, IsCustom) IN [i \in 1..Len(c) |-> c[i].id]

\* C1: every custom middleware sits after the schema-validation and the
\* parameter-normalization middleware and before the route-dispatch middleware,
\* and the custom middlewares keep the order the caller gave them in.
C1_CustomPlacement ==
    pc = "constructed" =>
        /\ Cardinality(Positions(Chain, {"OpenApiValidator.middleware"})) = 1
        /\ Cardinality(Positions(Chain, {"SwaggerParameters.checkParameters"})) = 1
        /\ Cardinality(Positions(Chain, {"SwaggerRouter.initialize"})) = 1
        /\ \A i \in Positions(Chain, {"custom"}) :
              /\ \A j \in Positions(Chain, {"OpenApiValidator.middleware",
                                            "SwaggerParameters.checkParameters"}) : j < i
              /\ \A j \in Positions(Chain, {"SwaggerRouter.initialize"}) : i < j
        /\ CustomIds = GivenCustoms

C1_Witness ==
    /\ pc = "constructed"
    /\ Len(GivenCustoms) >= 2
    /\ GivenCustoms[1] > GivenCustoms[2]

\* C2: a construction that fails on the schema file leaves an application
\* handle the caller passed in without any middleware appended.
C2_NoPartialHandle ==
    (pc = "threw" /\ call.args.appOptions.app = "callerApp")
        => apps["callerApp"] = call.chainBefore

\* C3: the response status is the failure's status field for every integer
\* status (0 included) and 500 when the field is absent, and the JSON body
\* holds exactly the failure's message and errors.
C3_ExactStatus ==
    ret.op = "errorHandler" =>
        /\ ret.error.status.t = "number" => ret.response.statusCode = ret.error.status
        /\ ret.error.status.t = "undefined" => ret.response.statusCode = Num(DefaultStatus * 10)
        /\ ret.response.body = [message |-> ret.error.message, errors |-> ret.error.errors]

\* ---- the number a threshold stands for (JavaScript ToNumber), in tenths
RECURSIVE TrimRight(_)
TrimRight(s) ==
    IF s # <<>> /\ s[Len(s)] = " " THEN TrimRight(SubSeq(s, 1, Len(s) - 1)) ELSE s

AllDigits(s, radix) == \A i \in 1..Len(s) : IsDigit(s[i], radix)
FirstIndex(c, s) == IF c \in Range(s) THEN CHOOSE i \in 1..Len(s) : s[i] = c /\ \A j \in 1..(i - 1) : s[j] # c ELSE 0

RECURSIVE Pow10(_)
Pow10(n) == IF n = 0 THEN 1 ELSE 10 * Pow10(n - 1)

\* a decimal literal with at most one fraction digit and a plain exponent
DecimalTenths(s) ==
    LET neg == s # <<>> /\ Head(s) = "-"
        u == IF s # <<>> /\ Head(s) \in {"+", "-"} THEN Tail(s) ELSE s
        e == FirstIndex("e", u)
        m == IF e = 0 THEN u ELSE SubSeq(u, 1, e - 1)
        x == IF e = 0 THEN <<>> ELSE SubSeq(u, e + 1, Len(u))
        d == FirstIndex(".", m)
        ip == IF d = 0 THEN m ELSE SubSeq(m, 1, d - 1)
        fp == IF d = 0 THEN <<>> ELSE SubSeq(m, d + 1, Len(m))
        ok == /\ AllDigits(ip, 10) /\ AllDigits(fp, 10) /\ AllDigits(x, 10)
              /\ Len(ip) + Len(fp) > 0
              /\ Len(fp) <= 1
              /\ (e # 0 => x # <<>>)
        mag == (DigitsValue(ip, 10) * 10 + DigitsValue(fp, 10)) * Pow10(DigitsValue(x, 10))
    IN  IF ok THEN [nan |-> FALSE, val |-> IF neg THEN 0 - mag ELSE mag] ELSE NaN

ThresholdTenths(v) ==
    IF v.t = "number" THEN [nan |-> FALSE, val |-> v.num]
    ELSE LET s == TrimRight(TrimLeft(v.str))
         IN  IF s = <<>> THEN [nan |-> FALSE, val |-> 0]
             ELSE IF Len(s) > 2 /\ s[1] = "0" /\ s[2] \in {"x", "X"}
                  THEN IF AllDigits(SubSeq(s, 3, Len(s)), 16)
                       THEN [nan |-> FALSE, val |-> 10 * DigitsValue(SubSeq(s, 3, Len(s)), 16)]
                       ELSE NaN
                  ELSE DecimalTenths(s)

\* C4: with an errorLimit threshold T given as a number or as a string, the
\* logger skips every response with status code < T and logs every response
\* with status code >= T, for every such T.
C4_Threshold ==
    (/\ ret.op = "log"
     /\ call.args.appOptions.logging.kind = "object"
     /\ call.args.appOptions.logging.errorLimit.t \in {"number", "string"}
     /\ ~ThresholdTenths(call.args.appOptions.logging.errorLimit).nan)
        => (ret.skipped
              <=> ret.statusCode * 10 < ThresholdTenths(call.args.appOptions.logging.errorLimit).val)

\* ---- the stage kinds the assembly order is stated in
Category(st) ==
    CASE st.name = "cors" -> "cors"
      [] st.name \in {"bodyParser.urlencoded", "bodyParser.text", "bodyParser.json",
                      "bodyParser.raw", "express.json", "express.urlencoded"} -> "body parsing"
      [] st.name = "logger" -> "request logging"
      [] st.name = "cookieParser" -> "cookie parsing"
      [] st.name = "swaggerUi.serveStaticContent" -> "documentation UI"
      [] st.name = "OpenApiValidator.middleware" -> "schema validation"
      [] st.name = "SwaggerParameters.checkParameters" -> "parameter normalization"
      [] st.name = "custom" -> "custom"
      [] st.name = "SwaggerRouter.initialize" -> "route dispatch"
      [] st.name = "errorHandler" -> "error formatting"
      [] OTHER -> "other"

Categories(seq) == [i \in 1..Len(seq) |-> Category(seq[i])]

\* a run of equal neighbours counts once
RECURSIVE Collapse(_)
Collapse(seq) ==
    IF Len(seq) <= 1 THEN seq
    ELSE IF seq[1] = seq[2] THEN Collapse(Tail(seq))
    ELSE <<seq[1]>> \o Collapse(Tail(seq))

CustomKind == IF GivenCustoms = <<>> THEN <<>> ELSE <<"custom">>

\* the schema file is read after CORS is registered and before any
\* body-parsing stage is
FileReadPlaced ==
    LET reads == {i \in 1..Len(trace) : trace[i].ev = "fs.readFileSync"}
        uses(kind) == {i \in 1..Len(trace) : trace[i].ev = "use" /\ Category(trace[i]) = kind}
    IN  /\ Cardinality(reads) = 1
        /\ Cardinality(uses("cors")) = 1
        /\ \A r \in reads :
              /\ \A c \in uses("cors") : c < r
              /\ \A b \in uses("body parsing") : r < b

\* C5 as stated: the stages are appended in the order CORS, body parsing,
\* request logging, cookie parsing, documentation UI, schema validation,
\* parameter normalization, custom middlewares, route dispatch, error
\* formatting, with no other stage in between, and the schema file is read
\* after CORS and before any body-parsing stage.
C5_StatedOrder ==
    pc = "constructed" =>
        /\ Collapse(Categories(Appended)) =
               <<"cors", "body parsing", "request logging", "cookie parsing",
                 "documentation UI", "schema validation", "parameter normalization">>
               \o CustomKind \o <<"route dispatch", "error formatting">>
        /\ FileReadPlaced

\* C5 amended: the order is CORS, body parsing, request logging, body parsing
\* again (express.json, express.urlencoded), cookie parsing, documentation UI,
\* schema validation, parameter normalization, custom middlewares, route
\* dispatch, error formatting, with no other stage in between; the schema file
\* is read after CORS and before any body-parsing stage.
C5_Order ==
    /\ pc = "constructed" =>
          /\ Collapse(Categories(Appended)) =
                 <<"cors", "body parsing", "request logging", "body parsing", "cookie parsing",
                   "documentation UI", "schema validation", "parameter normalization">>
                 \o CustomKind \o <<"route dispatch", "error formatting">>
          /\ [i \in 1..Len(Appended) |-> Appended[i].name] =
                 <<"cors", "bodyParser.urlencoded", "bodyParser.text", "bodyParser.json",
                   "bodyParser.raw", "logger", "express.json", "express.urlencoded",
                   "cookieParser", "swaggerUi.serveStaticContent",
                   "OpenApiValidator.middleware", "SwaggerParameters.checkParameters">>
                 \o [i \in 1..Len(GivenCustoms) |-> "custom"]
                 \o <<"SwaggerRouter.initialize", "errorHandler">>
          /\ SubSeq(Chain, 1, Len(call.chainBefore)) = call.chainBefore
    /\ pc # "new" => FileReadPlaced

C5_Witness ==
    /\ pc = "constructed"
    /\ Len(call.chainBefore) >= 1
    /\ Len(GivenCustoms) >= 1

\* C6: configureLogger called with no logging options gives the format 'dev'
\* and no skip predicate, so no response is skipped; the format is 'dev' too
\* whenever the format option is absent or is not a string.
DefaultsFor(loggerOptions, logger) ==
    /\ loggerOptions.kind # "object" =>
          /\ logger.format = "dev"
          /\ ~logger.skip.defined
          /\ \A statusCode \in StatusCodes : ~Skipped(logger, statusCode)
    /\ (loggerOptions.kind = "object" /\ loggerOptions.format.t # "string") =>
          logger.format = "dev"

C6_Defaults ==
    /\ ret.op = "configureLogger" => DefaultsFor(ret.loggerOptions, ret.logger)
    /\ pc = "constructed" => DefaultsFor(call.args.appOptions.logging, mw.logger)
    /\ (ret.op = "log" /\ call.args.appOptions.logging.kind # "object") => ~ret.skipped

C6_Witness ==
    /\ ret.op = "log"
    /\ ret.statusCode = 200
    /\ call.args.appOptions.logging.kind = "undefined"

\* what a getApp call hands back
GetAppReturns ==
    ret.op = "getApp" =>
        /\ ret.value = (IF call.args.appOptions.app = "undefined"
                        THEN "expressApp" ELSE call.args.appOptions.app)
        /\ ret.value = this.app
        /\ ret.value \in DOMAIN apps

\* C7: getApp returns the one application handle on every call (the caller's
\* when one was given, otherwise the one the constructor created), and a call
\* changes neither the middleware chain nor any field of the ExpressAppConfig.
C7_GetApp ==
    /\ []GetAppReturns
    /\ [][ret'.op = "getApp" => (apps' = apps /\ this' = this /\ heap' = heap /\ mw' = mw)]_vars

C7_Witness ==
    /\ ret.op = "getApp"
    /\ call.args.appOptions.app = "undefined"

\* C8: once the constructor has returned, no operation of the component
\* appends to, removes from or reorders the chain of an application handle.
C8_WriteOnce == [][pc = "constructed" => apps' = apps]_vars

C8_Witness ==
    /\ pc = "constructed"
    /\ ret.op = "configureLogger"
    /\ Len(Chain) > Len(call.chainBefore)

\* C9: the error-formatting middleware is the last stage of the chain for
\* every list of custom middlewares, and an invocation sets the status and
\* sends the JSON body exactly once and never calls next.
C9_Terminal ==
    /\ pc = "constructed" =>
          /\ Chain[Len(Chain)].name = "errorHandler"
          /\ Cardinality(Positions(Chain, {"errorHandler"})) = 1
    /\ ret.op = "errorHandler" =>
          /\ ret.response.statusCalls = 1
          /\ ret.response.jsonCalls = 1
          /\ ret.response.nextCalls = 0

C9_Witness ==
    /\ ret.op = "errorHandler"
    /\ Len(GivenCustoms) = 1
    /\ Chain[Len(Chain)].name = "errorHandler"

\* C10: the validator options always carry apiSpec = definitionPath: with no
\* openApiValidator options given they are exactly {apiSpec: definitionPath};
\* otherwise they are the caller's own object, every other field kept and its
\* apiSpec overwritten; and they are what the validation middleware receives.
C10_ValidatorOptions ==
    pc # "new" =>
        LET ref == this.openApiValidatorOptions
            given == call.args.appOptions.openApiValidator
        IN  /\ ref \in DOMAIN heap
            /\ heap[ref].apiSpec = call.args.definitionPath
            /\ given = "undefined" =>
                  /\ ref \notin DOMAIN call.heapBefore
                  /\ DOMAIN heap[ref] = {"apiSpec"}
                  /\ \A o \in DOMAIN call.heapBefore : heap[o] = call.heapBefore[o]
            /\ given # "undefined" =>
                  /\ ref = given
                  /\ DOMAIN heap = DOMAIN call.heapBefore
                  /\ DOMAIN heap[ref] = DOMAIN call.heapBefore[ref]
                  /\ \A f \in DOMAIN heap[ref] \ {"apiSpec"} : heap[ref][f] = call.heapBefore[ref][f]
            /\ pc = "constructed" => mw.validator = ref

C10_Witness ==
    /\ pc = "constructed"
    /\ call.args.appOptions.openApiValidator = "callerOpts"
    /\ call.heapBefore["callerOpts"].apiSpec = "other.yaml"
    /\ heap["callerOpts"].apiSpec = "api.yaml"

====
